---- MODULE Spec2Model ----
(***************************************************************************)
(* Model of the Yachani document registry (utils/document_manager.py):     *)
(* the DocumentManager instance of a page run, the two JSON files it       *)
(* loads and rewrites (data/metadata.json, data/categories.json), and the  *)
(* operations add_document, get_document and search_documents.             *)
(*                                                                         *)
(* Text values (title, author, the decimal form of the year) are sequences *)
(* of one-character strings, so that the f-string of add_document is a     *)
(* real concatenation.  Python dicts keep insertion order, so both the     *)
(* registry and category_counts are sequences of key/value entries.        *)
(***************************************************************************)
EXTENDS Integers, Sequences, FiniteSets, TLC

VARIABLES metadata,     \* self.metadata of the live DocumentManager
          categories,   \* self.categories of the live DocumentManager
          diskMeta,     \* data/metadata.json
          diskCat,      \* data/categories.json
          now,          \* the wall clock read by datetime.now()
          nAdds,        \* number of add_document calls made so far
          ret,          \* what the last operation was given and returned
          issued,       \* history: the <<triple, id>> pairs of the add_document
                        \*          calls made so far
          base,         \* history: category_counts when this instance was built
          added,        \* history: successful add_document calls per category
                        \*          on this instance
          session_state,\* st.session_state of the browser session
          agentsFile,   \* data/saved_agents.json
          chatFiles,    \* data/chat_history/<agent id>.json, by agent id
          indexDirs,    \* the vectorstore directories that exist on disk
          peer,         \* the DocumentManager of another session's page run
                        \* (None while there is none)
          indexChunks   \* what each vectorstore returns for the query asked,
                        \* most relevant first, by directory

\* what the pages keep next to the DocumentManager
pageVars == <<session_state, agentsFile, chatFiles, indexDirs, peer, indexChunks>>

vars == <<metadata, categories, diskMeta, diskCat, now, nAdds, ret, issued,
          base, added, session_state, agentsFile, chatFiles, indexDirs, peer,
          indexChunks>>

-----------------------------------------------------------------------------
(* Bounds *)

MaxAdds == 2

\* largest count a category starts with where the counts are drawn
MaxCount == 2

-----------------------------------------------------------------------------
(* Values *)

None == [none |-> TRUE]

Cats == { "Matematicas", "Ciencias" }

VectorPaths == { "vs1" }

OriginalPaths == { "orig1" }

WriteOutcomes == { "ok", "fail" }

\* The metadata drafts handed to add_document: what the upload form builds
\* from its title, author, year, category, description and tags inputs.  Two
\* of them differ in title and author only by where the "_" falls, two are
\* the same document filed under another category, and one comes from a
\* caller that passes only the three fields of the id.
Draft(title, author, year, category, description, tags) ==
    [title |-> title, author |-> author, year |-> year, category |-> category,
     description |-> description, tags |-> tags]

Drafts ==
    { Draft(<<"a", "_", "b">>, <<"c">>, 2019, "Matematicas", <<"D", "e">>, <<>>),
      Draft(<<"a">>, <<"b", "_", "c">>, 2019, "Ciencias", <<>>, <<>>),
      Draft(<<"a">>, <<"c">>, 2020, "Matematicas", <<>>, << <<"g">>, <<"E", "f">> >>),
      Draft(<<"a">>, <<"c">>, 2020, "Ciencias", <<>>, <<>>),
      [title |-> <<"a">>, author |-> <<"c">>, year |-> 2019] }

-----------------------------------------------------------------------------
(* Ordered dicts: sequences of entries [k |-> key, v |-> value] *)

DictHas(d, key) == \E i \in 1..Len(d) : d[i].k = key

DictIndex(d, key) == CHOOSE i \in 1..Len(d) : d[i].k = key

\* dict.get(key) / dict.get(key, default)
DictGet(d, key, default) ==
    IF DictHas(d, key) THEN d[DictIndex(d, key)].v ELSE default

\* d[key] = value: an existing key keeps its position, a new key goes last
DictSet(d, key, value) ==
    IF DictHas(d, key)
    THEN [d EXCEPT ![DictIndex(d, key)] = [k |-> key, v |-> value]]
    ELSE Append(d, [k |-> key, v |-> value])

\* list(d.values())
DictValues(d) == [i \in 1..Len(d) |-> d[i].v]

-----------------------------------------------------------------------------
(* add_document: the id *)

Digit(d) == <<"0", "1", "2", "3", "4", "5", "6", "7", "8", "9">>[d + 1]

RECURSIVE Str(_)
\* str(n) for a non-negative integer, as the f-string formats the year
Str(n) == IF n < 10 THEN <<Digit(n)>> ELSE Str(n \div 10) \o <<Digit(n % 10)>>

\* f"{metadata['title']}_{metadata['author']}_{metadata['year']}"
HashInput(m) == m.title \o <<"_">> \o m.author \o <<"_">> \o Str(m.year)

\* hashlib.sha256(...).hexdigest(), taken as injective on its input: the
\* digest is identified by the string that was hashed.
sha256(s) == [digest |-> s]

DocHash(m) == sha256(HashInput(m))

Triple(m) == <<m.title, m.author, m.year>>

SystemKeys == { "hash", "vectorstore_path", "original_path", "processed_date" }

\* FullMetadata with the two path arguments stored under each other's key
FullMetadata_pathsSwapped(m, h, p, q, t) ==
    LET sys == [hash |-> h, vectorstore_path |-> q, original_path |-> p,
                processed_date |-> t]
    IN  [key \in DOMAIN m \cup SystemKeys |->
            IF key \in SystemKeys THEN sys[key] ELSE m[key]]

\* {**metadata, "hash": ..., "vectorstore_path": ..., "original_path": ...,
\*  "processed_date": ...}: later keys override earlier ones
FullMetadata(m, h, p, q, t) ==
    LET sys == [hash |-> h, vectorstore_path |-> p, original_path |-> q,
                processed_date |-> t]
    IN  [key \in DOMAIN m \cup SystemKeys |->
            IF key \in SystemKeys THEN sys[key] ELSE m[key]]

-----------------------------------------------------------------------------
(* The two JSON files *)

Absent == [st |-> "absent", data |-> <<>>]

Corrupt == [st |-> "corrupt", data |-> <<>>]

FileOf(data) == [st |-> "ok", data |-> data]

\* with open(path, 'w') as f: json.dump(data, f), inside try/except that only
\* prints: a failed open leaves the file as it was and nothing is raised
SaveFile(file, data, w) == IF w = "ok" THEN FileOf(data) ELSE file

\* os.path.exists(path) and json.load succeeds
Loadable(file) == file.st = "ok"

\* "categories" of default_categories (names shortened, accents dropped)
DefaultTree ==
    [Matematicas |-> <<"Algebra", "Calculo">>, Ciencias |-> <<"Fisica", "Quimica">>]

default_categories == [categories |-> DefaultTree, category_counts |-> <<>>]

\* _load_metadata: what it returns and what it leaves on disk
LoadedMetadata(file) == IF Loadable(file) THEN file.data ELSE <<>>

MetaFileAfterLoad(file, w) ==
    IF Loadable(file) THEN file ELSE SaveFile(file, <<>>, w)

\* _load_categories: what it returns and what it leaves on disk
LoadedCategories(file) == IF Loadable(file) THEN file.data ELSE default_categories

\* CatFileAfterLoad without the _save_categories(default_categories) call
CatFileAfterLoad_noSave(file, w) == file

CatFileAfterLoad(file, w) ==
    IF Loadable(file) THEN file ELSE SaveFile(file, default_categories, w)

\* category_counts.get(category, 0)
CountOf(cats, c) == DictGet(cats.category_counts, c, 0)

\* IncrementCount that starts from 0 instead of the stored count
IncrementCount_fromZero(cats, category) ==
    [cats EXCEPT !.category_counts = DictSet(@, category, 0 + 1)]

\* category_counts[category] = category_counts.get(category, 0) + 1
IncrementCount(cats, category) ==
    [cats EXCEPT !.category_counts = DictSet(@, category, CountOf(cats, category) + 1)]

ZeroCounts == [c \in Cats |-> 0]

\* the "[:8]" of get_popular_categories
PopularLimit == 8

\* InsertByCount that puts an entry in front of the entries with its own count
InsertByCount_beforeEquals(sorted, e) ==
    LET ahead == { i \in 1..Len(sorted) : sorted[i].v > e.v }
        n == Cardinality(ahead)
    IN  SubSeq(sorted, 1, n) \o <<e>> \o SubSeq(sorted, n + 1, Len(sorted))

\* one step of sorted(..., key=lambda x: x[1], reverse=True): the sort is
\* stable, so e goes behind every entry whose count is not smaller
InsertByCount(sorted, e) ==
    LET ahead == { i \in 1..Len(sorted) : sorted[i].v >= e.v }
        n == Cardinality(ahead)
    IN  SubSeq(sorted, 1, n) \o <<e>> \o SubSeq(sorted, n + 1, Len(sorted))

RECURSIVE SortedByCount(_)
\* sorted(counts.items(), key=lambda x: x[1], reverse=True)
SortedByCount(items) ==
    IF items = <<>> THEN <<>>
    ELSE InsertByCount(SortedByCount(SubSeq(items, 1, Len(items) - 1)),
                       items[Len(items)])

\* s[:n]
Take(s, n) == SubSeq(s, 1, IF Len(s) < n THEN Len(s) ELSE n)

\* get_popular_categories(): dict(sorted(...)[:8]) of
\* self.categories.get('category_counts', {})
get_popular_categories(cats) ==
    LET counts == IF "category_counts" \in DOMAIN cats THEN cats.category_counts ELSE <<>>
    IN  Take(SortedByCount(counts), PopularLimit)

-----------------------------------------------------------------------------
(* search_documents *)

\* Filter values: None, a string [s |-> ...] or a year range [lo, hi]
StrV(x) == [s |-> x]

RangeV(a, b) == [lo |-> a, hi |-> b]

IsRange(v) == DOMAIN v = { "lo", "hi" }

IsStr(v) == DOMAIN v = { "s" }

\* Restricts without the test against "Todos"
Restricts_withoutTodos(v) ==
    /\ v # None
    /\ ~(IsStr(v) /\ v.s \in { "", "Todas" })

\* "if value and value != 'Todas' and value != 'Todos'"
Restricts(v) ==
    /\ v # None
    /\ ~(IsStr(v) /\ v.s \in { "", "Todas", "Todos" })

\* int(doc.get('year', 0))
YearOf(doc) == IF "year" \in DOMAIN doc THEN doc.year ELSE 0

\* FilterKeeps with an exclusive upper end of the year range
FilterKeeps_exclusiveEnd(doc, key, v) ==
    IF key = "year_range"
    THEN v.lo <= YearOf(doc) /\ YearOf(doc) < v.hi
    ELSE /\ IsStr(v)
         /\ key \in DOMAIN doc
         /\ doc[key] = v.s

\* the predicate one restricting filter entry applies to a record
FilterKeeps(doc, key, v) ==
    IF key = "year_range"
    THEN v.lo <= YearOf(doc) /\ YearOf(doc) <= v.hi
    ELSE /\ IsStr(v)
         /\ key \in DOMAIN doc
         /\ doc[key] = v.s

\* [doc for doc in results if keep(doc)]
RECURSIVE SelectDocs(_, _, _)
SelectDocs(docs, key, v) ==
    IF docs = <<>> THEN <<>>
    ELSE LET rest == SelectDocs(Tail(docs), key, v)
         IN  IF FilterKeeps(Head(docs), key, v) THEN <<Head(docs)>> \o rest ELSE rest

\* for key, value in filters.items(): ...
RECURSIVE ApplyFilters(_, _)
ApplyFilters(docs, filters) ==
    IF filters = <<>> THEN docs
    ELSE LET f == Head(filters)
             kept == IF Restricts(f.v) THEN SelectDocs(docs, f.k, f.v) ELSE docs
         IN  ApplyFilters(kept, Tail(filters))

\* str.lower() on the letters the model uses
LowerChar(ch) ==
    CASE ch = "A" -> "a"
      [] ch = "B" -> "b"
      [] ch = "C" -> "c"
      [] ch = "D" -> "d"
      [] ch = "E" -> "e"
      [] ch = "F" -> "f"
      [] OTHER -> ch

Lower(text) == [i \in 1..Len(text) |-> LowerChar(text[i])]

\* needle in haystack
Contains(haystack, needle) ==
    \E i \in 0..(Len(haystack) - Len(needle)) :
        \A j \in 1..Len(needle) : haystack[i + j] = needle[j]

\* [doc.get('title', ''), doc.get('description', ''), doc.get('author', ''),
\*  *doc.get('tags', [])]
TextGet(doc, key) == IF key \in DOMAIN doc THEN doc[key] ELSE <<>>

SearchedTexts(doc) ==
    { TextGet(doc, "title"), TextGet(doc, "description"), TextGet(doc, "author") }
    \cup (IF "tags" \in DOMAIN doc
          THEN { doc.tags[i] : i \in 1..Len(doc.tags) } ELSE {})

\* QueryKeeps that compares against the text as stored, not lower-cased
QueryKeeps_caseSensitive(doc, q) == \E text \in SearchedTexts(doc) : Contains(text, q)

\* any(query in str(value).lower() for value in [...])
QueryKeeps(doc, q) == \E text \in SearchedTexts(doc) : Contains(Lower(text), q)

RECURSIVE SelectByQuery(_, _)
SelectByQuery(docs, q) ==
    IF docs = <<>> THEN <<>>
    ELSE LET rest == SelectByQuery(Tail(docs), q)
         IN  IF QueryKeeps(Head(docs), q) THEN <<Head(docs)>> \o rest ELSE rest

\* The arguments of search_documents: query is None or [text |-> string],
\* filters is None or [items |-> the dict's entries in order]
QueryV(text) == [text |-> text]

FiltersV(items) == [items |-> items]

\* "if filters:" and "if query:": None, {} and "" are falsy
FiltersGiven(filters) == filters # None /\ filters.items # <<>>

QueryGiven(query) == query # None /\ query.text # <<>>

\* search_documents(query, filters) on the registry reg
search_documents(reg, query, filters) ==
    LET results == DictValues(reg)
        filtered == IF FiltersGiven(filters)
                    THEN ApplyFilters(results, filters.items) ELSE results
    IN  IF QueryGiven(query)
        THEN SelectByQuery(filtered, Lower(query.text)) ELSE filtered

\* get_document(doc_hash)
get_document(reg, h) == DictGet(reg, h, None)

-----------------------------------------------------------------------------
(* Inputs of the operations *)

\* every id add_document can compute from a draft
AllHashes == { DocHash(m) : m \in Drafts }

YearRanges == { RangeV(2019, 2019), RangeV(2020, 2020), RangeV(2019, 2020) }

\* a filters dict with the keys the catalog page passes (pages/1_catalog.py,
\* "type" left out); the page itself always passes a year_range tuple
CatalogFilters(cv, lv, rv) ==
    FiltersV(<< [k |-> "category", v |-> cv], [k |-> "level", v |-> lv],
                [k |-> "language", v |-> None], [k |-> "year_range", v |-> rv] >>)

\* the (query, filters) pairs search_documents is called with
SearchInputs ==
    { <<None, None>>, <<None, FiltersV(<<>>)>>, <<QueryV(<<>>), None>>,
      <<QueryV(<<"B">>), None>>, <<QueryV(<<"d", "E">>), None>>,
      <<QueryV(<<"F">>), None>>, <<QueryV(<<"z">>), None>>,
      <<None, CatalogFilters(StrV("Todas"), StrV("Todos"), None)>>,
      <<None, CatalogFilters(StrV("Matematicas"), StrV("Todos"), None)>> }
    \cup { <<None, CatalogFilters(StrV("Todas"), StrV("Todos"), rv)>> : rv \in YearRanges }

-----------------------------------------------------------------------------
(* State *)

NoRet == [op |-> "none"]

\* a value of st.session_state that is a list
ListV(s) == [list |-> s]

\* st.session_state of a session that has not run any page: no key is set
EmptySession ==
    [current_agent_config |-> None, selected_docs |-> None, messages |-> None,
     agent |-> None, upload_step |-> None, doc_metadata |-> None,
     uploaded_file |-> None]

\* a fresh session on a data directory without agents, transcripts or indexes
NoPageState ==
    /\ session_state = EmptySession
    /\ agentsFile = Absent
    /\ chatFiles = <<>>
    /\ indexDirs = {}
    /\ peer = None
    /\ indexChunks = <<>>

\* the state DocumentManager() leaves behind on an empty data directory
Init ==
    /\ metadata = <<>>
    /\ categories = default_categories
    /\ \E wm \in WriteOutcomes : diskMeta = SaveFile(Absent, <<>>, wm)
    /\ \E wc \in WriteOutcomes : diskCat = SaveFile(Absent, default_categories, wc)
    /\ now = 0
    /\ nAdds = 0
    /\ ret = NoRet
    /\ issued = {}
    /\ base = ZeroCounts
    /\ added = ZeroCounts
    /\ NoPageState

\* DocumentManager(): a page run builds a new instance from the two files
Construct(wm, wc) ==
    /\ metadata' = LoadedMetadata(diskMeta)
    /\ diskMeta' = MetaFileAfterLoad(diskMeta, wm)
    /\ categories' = LoadedCategories(diskCat)
    /\ diskCat' = CatFileAfterLoad(diskCat, wc)
    /\ ret' = [op |-> "construct", metaFile |-> diskMeta.st, catFile |-> diskCat.st,
               wm |-> wm, wc |-> wc]
    /\ base' = [c \in Cats |-> CountOf(categories', c)]
    /\ added' = ZeroCounts
    /\ UNCHANGED <<now, nAdds, issued>>
    /\ UNCHANGED pageVars

\* add_document(m, p, q); the two saves end as wm, wc.  The clock has moved
\* on since the previous call when datetime.now() is read.
AddDocument(m, p, q, wm, wc) ==
    /\ nAdds < MaxAdds
    /\ nAdds' = nAdds + 1
    /\ now' = now + 1
    /\ LET doc_hash == DocHash(m)
           full_metadata == FullMetadata(m, doc_hash, p, q, now')
           newMeta == DictSet(metadata, doc_hash, full_metadata)
       IN  /\ metadata' = newMeta
           /\ diskMeta' = SaveFile(diskMeta, newMeta, wm)
           /\ issued' = issued \cup { <<Triple(m), doc_hash>> }
           /\ IF "category" \in DOMAIN m
              THEN LET category == m.category
                       newCats == IncrementCount(categories, category)
                   IN  /\ categories' = newCats
                       /\ diskCat' = SaveFile(diskCat, newCats, wc)
                       /\ added' = [added EXCEPT ![category] = @ + 1]
                       /\ ret' = [op |-> "add", m |-> m, p |-> p, q |-> q, wm |-> wm,
                                  wc |-> wc, raised |-> FALSE, val |-> doc_hash]
              ELSE \* KeyError on metadata['category'], re-raised as Exception
                   /\ ret' = [op |-> "add", m |-> m, p |-> p, q |-> q, wm |-> wm,
                              wc |-> wc, raised |-> TRUE, val |-> None]
                   /\ UNCHANGED <<categories, diskCat, added>>
    /\ UNCHANGED base
    /\ UNCHANGED pageVars

\* get_document(h)
GetDocument(h) ==
    /\ ret' = [op |-> "get", h |-> h, val |-> get_document(metadata, h)]
    /\ UNCHANGED <<metadata, categories, diskMeta, diskCat, now, nAdds, issued,
                   base, added>>
    /\ UNCHANGED pageVars

\* search_documents(query, filters)
SearchDocuments(query, filters) ==
    /\ ret' = [op |-> "search", query |-> query, filters |-> filters,
               val |-> search_documents(metadata, query, filters)]
    /\ UNCHANGED <<metadata, categories, diskMeta, diskCat, now, nAdds, issued,
                   base, added>>
    /\ UNCHANGED pageVars

\* the environment damages or removes one of the JSON files
DamageMetadataFile(file) ==
    /\ diskMeta.st # file.st
    /\ diskMeta' = file
    /\ ret' = [op |-> "damage"]
    /\ UNCHANGED <<metadata, categories, diskCat, now, nAdds, issued, base, added>>
    /\ UNCHANGED pageVars

DamageCategoriesFile(file) ==
    /\ diskCat.st # file.st
    /\ diskCat' = file
    /\ ret' = [op |-> "damage"]
    /\ UNCHANGED <<metadata, categories, diskMeta, now, nAdds, issued, base, added>>
    /\ UNCHANGED pageVars

Next ==
    \/ \E wm \in WriteOutcomes, wc \in WriteOutcomes : Construct(wm, wc)
    \/ \E m \in Drafts, p \in VectorPaths, q \in OriginalPaths,
          wm \in WriteOutcomes, wc \in WriteOutcomes : AddDocument(m, p, q, wm, wc)
    \/ \E h \in AllHashes : GetDocument(h)
    \/ \E inp \in SearchInputs : SearchDocuments(inp[1], inp[2])
    \/ \E file \in { Absent, Corrupt } : DamageMetadataFile(file)
    \/ \E file \in { Absent, Corrupt } : DamageCategoriesFile(file)

Spec == Init /\ [][Next]_vars

\* One DocumentManager on an empty data directory, with no page rerun and
\* nobody touching the files: add_document, get_document and
\* search_documents only.
NextInserts ==
    \/ \E m \in Drafts, p \in VectorPaths, q \in OriginalPaths,
          wm \in WriteOutcomes, wc \in WriteOutcomes : AddDocument(m, p, q, wm, wc)
    \/ \E h \in AllHashes : GetDocument(h)
    \/ \E inp \in SearchInputs : SearchDocuments(inp[1], inp[2])

SpecInserts == Init /\ [][NextInserts]_vars

-----------------------------------------------------------------------------
(* The home page: get_popular_categories on a taxonomy with many counts *)

\* category names in the order their counts were first written
PopularCats ==
    << "Matematicas", "Ciencias", "Programacion", "Idiomas", "Historia",
       "Literatura", "Arte", "Musica", "Deportes" >>

\* category_counts dicts over the first n categories
CountDicts(n) ==
    { [i \in 1..n |-> [k |-> PopularCats[i], v |-> f[i]]] : f \in [1..n -> 1..MaxCount] }

\* a DocumentManager whose categories.json holds counts for two, or for nine
\* categories
InitPopular ==
    /\ metadata = <<>>
    /\ diskMeta = FileOf(<<>>)
    /\ \E n \in { 2, Len(PopularCats) } : \E cc \in CountDicts(n) :
          categories = [categories |-> DefaultTree, category_counts |-> cc]
    /\ diskCat = FileOf(categories)
    /\ now = 0
    /\ nAdds = 0
    /\ ret = NoRet
    /\ issued = {}
    /\ base = [c \in Cats |-> CountOf(categories, c)]
    /\ added = ZeroCounts
    /\ NoPageState

\* get_popular_categories()
GetPopularCategories ==
    /\ ret' = [op |-> "popular", val |-> get_popular_categories(categories)]
    /\ UNCHANGED <<metadata, categories, diskMeta, diskCat, now, nAdds, issued,
                   base, added>>
    /\ UNCHANGED pageVars

NextPopular == GetPopularCategories

SpecPopular == InitPopular /\ [][NextPopular]_vars

-----------------------------------------------------------------------------
(* Properties *)

\* the ids add_document has stored so far
InsertedIds == { x[2] : x \in issued }

\* the triples add_document has been called with so far
InsertedTriples == { x[1] : x \in issued }

\* C1: after add_document(m, p, q) has returned id h, get_document(h) is a
\* record whose user fields are those of m and whose system fields are
\* hash = h, vectorstore_path = p, original_path = q and a processed_date
\* (the clock reading of the call); get_document of an id that was never
\* inserted returns None.
C1_InsertThenGet ==
    /\ (ret.op = "add" /\ ~ret.raised) =>
          LET rec == get_document(metadata, ret.val)
          IN  /\ rec # None
              /\ DOMAIN rec = DOMAIN ret.m \cup SystemKeys
              /\ \A key \in DOMAIN ret.m : rec[key] = ret.m[key]
              /\ rec.hash = ret.val
              /\ rec.vectorstore_path = ret.p
              /\ rec.original_path = ret.q
              /\ rec.processed_date = now
    /\ (ret.op = "get" /\ ret.h \notin InsertedIds) => ret.val = None

C1_Witness ==
    /\ ret.op = "add"
    /\ ~ret.raised
    /\ Len(metadata) = 2
    /\ AllHashes \ InsertedIds # {}

\* C2: after any sequence of add_document calls the registry holds exactly
\* one record per distinct (title, author, year) triple that was inserted,
\* and every record's stored hash is the key it is stored under.
C2_OneRecordPerTriple ==
    /\ Len(metadata) = Cardinality(InsertedTriples)
    /\ \A i \in 1..Len(metadata) : metadata[i].v.hash = metadata[i].k

\* C3: an add_document call whose write of metadata.json fails raises and
\* leaves the in-memory registry as it was before the call.
C3_FailedWriteRollsBack ==
    [][(nAdds' = nAdds + 1 /\ ret'.wm = "fail") =>
          (ret'.raised /\ metadata' = metadata)]_vars

\* the number of registry records filed under category c
RecordsIn(c) ==
    Cardinality({ i \in 1..Len(metadata) :
                    /\ "category" \in DOMAIN metadata[i].v
                    /\ metadata[i].v.category = c })

\* C4: from an empty store and under add_document calls only,
\* category_counts[c] is the number of registry records whose category is c.
C4_CountsMatchRecords == \A c \in Cats : CountOf(categories, c) = RecordsIn(c)

\* C5: on one DocumentManager instance, category_counts[c] is its value when
\* the instance was built (a missing key counting as 0) plus the number of
\* add_document calls with category c that have returned since; calls with
\* another category leave it alone.
C5_CountsFollowCalls == \A c \in Cats : CountOf(categories, c) = base[c] + added[c]

C5_Witness ==
    \E c \in Cats :
        /\ base[c] = 1
        /\ added[c] = 1
        /\ CountOf(categories, c) = 2

\* C6: over inserts and re-instantiations of DocumentManager the count
\* observed for a category never decreases from one state to the next.
C6_CountsNeverDecrease ==
    [][\A c \in Cats : CountOf(categories', c) >= CountOf(categories, c)]_vars

\* C7: DocumentManager() on an absent or malformed categories.json returns
\* the default taxonomy with empty counts and, its write going through,
\* leaves that taxonomy in the file; on an absent or malformed metadata.json
\* it returns the empty registry and, its write going through, leaves the
\* empty registry in the file.  The constructor has no failing branch.
C7_DamagedFilesAreReplaced ==
    ret.op = "construct" =>
        /\ ret.catFile \in { "absent", "corrupt" } =>
              /\ categories = default_categories
              /\ ret.wc = "ok" => (diskCat.st = "ok" /\ diskCat.data = default_categories)
        /\ ret.metaFile \in { "absent", "corrupt" } =>
              /\ metadata = <<>>
              /\ ret.wm = "ok" => (diskMeta.st = "ok" /\ diskMeta.data = <<>>)

C7_Witness ==
    /\ ret.op = "construct"
    /\ ret.catFile = "corrupt"
    /\ ret.metaFile = "absent"
    /\ ret.wc = "ok"
    /\ ret.wm = "ok"
    /\ issued # {}

\* C8: with sha256 injective, two add_document calls get the same id exactly
\* when their (title, author, year) triples are equal.
C8_IdInjectiveOnTriples ==
    \A x \in issued, y \in issued : (x[1] = y[1]) <=> (x[2] = y[2])

\* filters that are absent, empty, or hold only no-restriction values
NoRestriction(filters) ==
    \/ filters = None
    \/ \A i \in 1..Len(filters.items) :
          filters.items[i].v \in { None, StrV("Todas"), StrV("Todos") }

\* C9: search_documents with no query and unrestricting filters returns
\* every record of the registry exactly once, in registry order.
C9_SearchAllReturnsRegistry ==
    (ret.op = "search" /\ ~QueryGiven(ret.query) /\ NoRestriction(ret.filters)) =>
        /\ Len(ret.val) = Len(metadata)
        /\ \A i \in 1..Len(metadata) : ret.val[i] = metadata[i].v

C9_Witness ==
    /\ ret.op = "search"
    /\ ret.query = None
    /\ ret.filters = CatalogFilters(StrV("Todas"), StrV("Todos"), None)
    /\ Len(ret.val) = 2

\* the only restricting entry of filters is a year_range
OnlyYearRange(filters) ==
    /\ filters # None
    /\ \E i \in 1..Len(filters.items) :
          /\ filters.items[i].k = "year_range"
          /\ IsRange(filters.items[i].v)
          /\ \A j \in 1..Len(filters.items) :
                j # i => filters.items[j].v \in { None, StrV("Todas"), StrV("Todos") }

YearRangeOf(filters) ==
    filters.items[CHOOSE i \in 1..Len(filters.items) : filters.items[i].k = "year_range"].v

\* C10: search_documents with year_range = (a, b) and nothing else
\* restricting returns exactly the records with a <= year <= b, each once.
C10_YearRangeIsInclusive ==
    (ret.op = "search" /\ ~QueryGiven(ret.query) /\ OnlyYearRange(ret.filters)) =>
        LET r == YearRangeOf(ret.filters)
            inRange == { i \in 1..Len(metadata) :
                           r.lo <= metadata[i].v.year /\ metadata[i].v.year <= r.hi }
        IN  /\ Len(ret.val) = Cardinality(inRange)
            /\ \A i \in inRange : \E j \in 1..Len(ret.val) : ret.val[j] = metadata[i].v
            /\ \A j \in 1..Len(ret.val) : \E i \in inRange : ret.val[j] = metadata[i].v

C10_Witness ==
    /\ ret.op = "search"
    /\ ret.query = None
    /\ ret.filters = CatalogFilters(StrV("Todas"), StrV("Todos"), RangeV(2020, 2020))
    /\ Len(metadata) = 2
    /\ Len(ret.val) = 1
    /\ ret.val[1].year = 2020

\* the texts of a record the free-text query is matched against
TextsOf(doc) ==
    { IF key \in DOMAIN doc THEN doc[key] ELSE <<>> :
        key \in { "title", "description", "author" } }
    \cup (IF "tags" \in DOMAIN doc THEN { doc.tags[i] : i \in DOMAIN doc.tags } ELSE {})

\* needle occurs in text as a contiguous piece
IsSubstring(needle, text) ==
    \/ needle = <<>>
    \/ \E i \in 1..Len(text), j \in 1..Len(text) : SubSeq(text, i, j) = needle

\* the positions of the registry whose record matches query q
MatchingPositions(q) ==
    { i \in 1..Len(metadata) :
        \E text \in TextsOf(metadata[i].v) : IsSubstring(Lower(q), Lower(text)) }

PositionIn(cc, c) == CHOOSE i \in 1..Len(cc) : cc[i].k = c

\* C12: get_popular_categories returns at most PopularLimit entries of
\* category_counts (all of them when there are no more than that), each
\* category once, ordered by count descending, none of them with a smaller
\* count than an omitted category; categories with equal counts come in the
\* order of the underlying dict, so the same counts always give the same
\* entries in the same order.
C12_PopularCategories ==
    (ret.op = "popular") =>
        LET r == ret.val
            cc == categories.category_counts
            shown == { r[i].k : i \in 1..Len(r) }
        IN  /\ Len(r) <= PopularLimit
            /\ Len(r) = (IF Len(cc) < PopularLimit THEN Len(cc) ELSE PopularLimit)
            /\ Cardinality(shown) = Len(r)
            /\ \A i \in 1..Len(r) : \E j \in 1..Len(cc) : cc[j] = r[i]
            /\ \A i \in 1..Len(r), j \in 1..Len(r) : i < j => r[i].v >= r[j].v
            /\ \A j \in 1..Len(cc) :
                  cc[j].k \notin shown => \A i \in 1..Len(r) : r[i].v >= cc[j].v
            /\ \A i \in 1..Len(r), j \in 1..Len(r) :
                  (i < j /\ r[i].v = r[j].v) =>
                      PositionIn(cc, r[i].k) < PositionIn(cc, r[j].k)

C12_Witness ==
    /\ ret.op = "popular"
    /\ Len(categories.category_counts) = 9
    /\ Len(ret.val) = PopularLimit
    /\ ret.val[1].k # categories.category_counts[1].k
    /\ ret.val[1].v = ret.val[2].v
    /\ ret.val[PopularLimit].v < ret.val[1].v
    /\ \E j \in 1..8 : categories.category_counts[j].k \notin { ret.val[i].k : i \in 1..8 }

-----------------------------------------------------------------------------
(* The agents page (pages/2_agents.py): data/saved_agents.json, the          *)
(* functions save_agent, delete_agent, load_agent_config and the handlers    *)
(* of the page.  Every handler runs inside a page run, which first builds a  *)
(* DocumentManager from the files.                                           *)

\* latest reading of the clock at which an agent is saved
MaxClock == 1

\* c.isalnum() for the characters texts are made of
IsAlnum(c) ==
    c \in { "a", "b", "c", "d", "e", "f", "g", "z", "A", "B", "C", "D", "E", "F" }

\* clean_filename: every character that is neither alphanumeric nor one of
\* "._- " becomes "_"
clean_filename(filename) ==
    [i \in 1..Len(filename) |->
        IF IsAlnum(filename[i]) \/ filename[i] \in { ".", "_", "-", " " }
        THEN filename[i] ELSE "_"]

\* doc_dir of process_document: data/processed_docs/<safe_title>, which is
\* also the vectorstore_path it reports
DocDir(title) == [processed_docs |-> clean_filename(title)]

\* original_path of process_document: doc_dir/original_<safe_title><suffix>
OriginalPath(title, suffix) ==
    [processed_docs |-> clean_filename(title), original |-> clean_filename(title),
     suffix |-> suffix]

\* DocumentManager() of a page run, the two saves ending as wm, wc
ManagerLoad(wm, wc) ==
    /\ metadata' = LoadedMetadata(diskMeta)
    /\ diskMeta' = MetaFileAfterLoad(diskMeta, wm)
    /\ categories' = LoadedCategories(diskCat)
    /\ diskCat' = CatFileAfterLoad(diskCat, wc)
    /\ base' = [c \in Cats |-> CountOf(categories', c)]
    /\ added' = ZeroCounts

\* DictRemove that leaves an empty dict
DictRemove_all(d, key) == <<>>

\* how the save inside a load can end: no save is made when the file loads
LoadWrites(file) == IF Loadable(file) THEN { "ok" } ELSE WriteOutcomes

\* del d[key]
DictRemove(d, key) == SelectSeq(d, LAMBDA e : e.k # key)

\* how "with open(path, 'w') as f: json.dump(data, f)" can end: written; open
\* (or os.makedirs) raises and the file is untouched; open has truncated the
\* file and the dump raises before the text is complete (disk full, I/O error)
AgentWrites == { "ok", "open_fails", "truncated" }

WriteJson(file, data, w) ==
    CASE w = "ok" -> FileOf(data)
      [] w = "open_fails" -> file
      [] w = "truncated" -> Corrupt

\* load_saved_agents: {} when the file is absent or json.load raises
load_saved_agents(file) == IF Loadable(file) THEN file.data ELSE <<>>

\* agent_id of save_agent: "agent_" and the clock reading to the second
AgentId(t) == [agent |-> t]

AgentIds == { AgentId(t) : t \in 0..MaxClock }

\* the entry save_agent stores for agent_config
StoredAgent(agent_config, t) ==
    [name |-> agent_config.name, role |-> agent_config.role,
     context_window |-> agent_config.context_window,
     docs |-> [i \in 1..Len(agent_config.vectorstores) |->
                 [title |-> agent_config.vectorstores[i].title,
                  hash |-> agent_config.vectorstores[i].hash]],
     created_at |-> t]

\* save_agent(agent_config) at clock reading t, the write ending as w:
\* the file it leaves and the value it returns
save_agent_keepsExisting(file, agent_config, t, w) ==
    LET agents == load_saved_agents(file)
        agent_id == AgentId(t)
        newAgents == IF DictHas(agents, agent_id) THEN agents
                     ELSE DictSet(agents, agent_id, StoredAgent(agent_config, t))
    IN  [file |-> WriteJson(file, newAgents, w),
         val |-> IF w = "ok" THEN agent_id ELSE None]

save_agent(file, agent_config, t, w) ==
    LET agents == load_saved_agents(file)
        agent_id == AgentId(t)
        newAgents == DictSet(agents, agent_id, StoredAgent(agent_config, t))
    IN  [file |-> WriteJson(file, newAgents, w),
         val |-> IF w = "ok" THEN agent_id ELSE None]

\* delete_agent(agent_id), the write ending as w
delete_agent(file, agent_id, w) ==
    LET agents == load_saved_agents(file)
    IN  IF DictHas(agents, agent_id)
        THEN [file |-> WriteJson(file, DictRemove(agents, agent_id), w),
              val |-> (w = "ok")]
        ELSE [file |-> file, val |-> FALSE]

\* Resolves without the os.path.exists test
Resolves_withoutPathCheck(reg, dirs, h) ==
    LET doc == get_document(reg, h)
    IN  doc # None

\* "if doc and os.path.exists(doc.get('vectorstore_path', ''))"
Resolves(reg, dirs, h) ==
    LET doc == get_document(reg, h)
    IN  /\ doc # None
        /\ "vectorstore_path" \in DOMAIN doc
        /\ doc.vectorstore_path \in dirs

\* the entry appended to vectorstores for a registry record
Resolved(doc) ==
    [hash |-> doc.hash, title |-> doc.title, vectorstore |-> doc.vectorstore_path]

\* how opening the Chroma stores and the embeddings client can end
ChromaOutcomes == { "ok", "raises" }

\* load_agent_config(agent_id, doc_manager); chroma says whether opening an
\* index raises
load_agent_config(file, reg, dirs, agent_id, chroma) ==
    LET agents == load_saved_agents(file)
    IN  IF ~DictHas(agents, agent_id) THEN None
        ELSE LET saved_agent == DictGet(agents, agent_id, None)
                 kept == SelectSeq(saved_agent.docs,
                                   LAMBDA d : Resolves(reg, dirs, d.hash))
             IN  IF kept # <<>> /\ chroma = "raises" THEN None
                 ELSE [vectorstores |->
                          [i \in 1..Len(kept) |->
                              Resolved(get_document(reg, kept[i].hash))]]
                      @@ saved_agent

\* the two documents the registry of the agents page holds
AgentDrafts ==
    << Draft(<<"a", "_", "b">>, <<"c">>, 2019, "Matematicas", <<"D", "e">>, <<>>),
       Draft(<<"a">>, <<"c">>, 2020, "Ciencias", <<>>, <<>>) >>

\* the record add_document stored for an uploaded draft
UploadedRecord(m) ==
    FullMetadata(m, DocHash(m), DocDir(m.title), OriginalPath(m.title, ".pdf"), 0)

AgentsRegistry ==
    [i \in 1..Len(AgentDrafts) |->
        [k |-> DocHash(AgentDrafts[i]), v |-> UploadedRecord(AgentDrafts[i])]]

AgentHashes == { DocHash(AgentDrafts[i]) : i \in 1..Len(AgentDrafts) }

\* what the form is submitted with
AgentNames == { "", "Ana" }

\* a data directory after the two uploads, and a session that starts
InitAgents ==
    /\ metadata = AgentsRegistry
    /\ diskMeta = FileOf(AgentsRegistry)
    /\ categories = IncrementCount(IncrementCount(default_categories, "Matematicas"),
                                   "Ciencias")
    /\ diskCat = FileOf(categories)
    /\ now = 0
    /\ nAdds = 0
    /\ ret = NoRet
    /\ issued = { <<Triple(AgentDrafts[i]), DocHash(AgentDrafts[i])>> :
                    i \in 1..Len(AgentDrafts) }
    /\ base = [c \in Cats |-> CountOf(categories, c)]
    /\ added = ZeroCounts
    /\ session_state = EmptySession
    /\ agentsFile = Absent
    /\ chatFiles = <<>>
    /\ indexDirs = { DocDir(AgentDrafts[i].title) : i \in 1..Len(AgentDrafts) }
    /\ peer = None
    /\ indexChunks = <<>>

\* the list selected_docs holds ([] when the key is missing)
SelectedDocs(ss) == IF ss.selected_docs = None THEN <<>> ELSE ss.selected_docs.list

\* catalog page: the checkbox of document h is ticked
CatalogSelect(h, wm, wc) ==
    /\ ManagerLoad(wm, wc)
    /\ DictHas(metadata', h)
    /\ LET sel == SelectedDocs(session_state)
       IN  session_state' =
             [session_state EXCEPT !.selected_docs =
                 ListV(IF \E i \in 1..Len(sel) : sel[i] = h THEN sel
                       ELSE Append(sel, h))]
    /\ ret' = [op |-> "select", h |-> h]
    /\ UNCHANGED <<now, nAdds, issued, agentsFile, chatFiles, indexDirs>>
    /\ UNCHANGED <<peer, indexChunks>>

\* selected_docs_info: the registry records of the selected documents
selected_docs_info(reg, sel) ==
    LET found == SelectSeq(sel, LAMBDA h : get_document(reg, h) # None)
    IN  [i \in 1..Len(found) |-> get_document(reg, found[i])]

\* vectorstores built by the form handler: the records whose
\* vectorstore_path is set and exists
FormVectorstores(docs, dirs) ==
    LET usable == SelectSeq(docs, LAMBDA doc : /\ "vectorstore_path" \in DOMAIN doc
                                               /\ doc.vectorstore_path \in dirs)
    IN  [i \in 1..Len(usable) |-> Resolved(usable[i])]

\* FormRejects that accepts an empty name
FormRejects_withoutNameCheck(agent_name, docs) == docs = <<>>

\* the two checks under "if submitted:" that end in st.error and st.stop()
FormRejects(agent_name, docs) == agent_name = "" \/ docs = <<>>

\* AfterSave that takes the draft as current whatever save_agent returned
AfterSave_ignoringResult(ss, agent_config, agent_id) ==
    [ss EXCEPT !.current_agent_config = agent_config]

\* "if agent_id: st.session_state['current_agent_config'] = agent_config"
AfterSave(ss, agent_config, agent_id) ==
    IF agent_id # None THEN [ss EXCEPT !.current_agent_config = agent_config]
    ELSE ss

\* "if submitted:" of the create tab: what is shown, and the session state
\* and the agents file it leaves
SubmitOutcome(ss, file, docs, dirs, agent_name, chroma, w, t) ==
    LET vectorstores == FormVectorstores(docs, dirs)
        agent_config == [name |-> agent_name, role |-> "Tutor", context_window |-> 3,
                         vectorstores |-> vectorstores]
        saved == save_agent(file, agent_config, t, w)
    IN  IF FormRejects(agent_name, docs)
        THEN [outcome |-> "rejected", ss |-> ss, file |-> file]
        ELSE IF vectorstores = <<>>
        THEN [outcome |-> "no_vectorstore", ss |-> ss, file |-> file]
        ELSE IF chroma = "raises"
        THEN [outcome |-> "raised", ss |-> ss, file |-> file]
        ELSE [outcome |-> IF saved.val # None THEN "created" ELSE "save_failed",
              ss |-> AfterSave(ss, agent_config, saved.val),
              file |-> saved.file]

\* create tab: the form is submitted with agent_name; the clock reads t when
\* save_agent is reached
SubmitAgentForm(agent_name, chroma, w, t, wm, wc) ==
    /\ SelectedDocs(session_state) # <<>>
    /\ t <= MaxClock
    /\ ManagerLoad(wm, wc)
    /\ LET docs == selected_docs_info(metadata', SelectedDocs(session_state))
           out == SubmitOutcome(session_state, agentsFile, docs, indexDirs,
                                agent_name, chroma, w, t)
       IN  /\ session_state' = out.ss
           /\ agentsFile' = out.file
           /\ now' = IF out.outcome \in { "created", "save_failed" } THEN t ELSE now
           /\ ret' = [op |-> "submit", name |-> agent_name, resolved |-> Len(docs),
                      outcome |-> out.outcome,
                      replaced |-> IF out.outcome = "created"
                                   THEN DictGet(load_saved_agents(agentsFile),
                                                AgentId(t), None)
                                   ELSE None]
    /\ UNCHANGED <<nAdds, issued, chatFiles, indexDirs>>
    /\ UNCHANGED <<peer, indexChunks>>

\* UseAccepts that takes any config load_agent_config returned
UseAccepts_anyConfig(config) == config # None

\* "if config and config['vectorstores']:"
UseAccepts(config) == config # None /\ config.vectorstores # <<>>

\* saved tab: the "Usar" button of a listed agent
UseAgent(agent_id, chroma, wm, wc) ==
    /\ DictHas(load_saved_agents(agentsFile), agent_id)
    /\ ManagerLoad(wm, wc)
    /\ LET config == load_agent_config(agentsFile, metadata', indexDirs, agent_id,
                                       chroma)
       IN  /\ session_state' =
                 IF UseAccepts(config)
                 THEN [session_state EXCEPT !.current_agent_config = config]
                 ELSE session_state
           /\ ret' = [op |-> "use", id |-> agent_id, chroma |-> chroma,
                      val |-> config]
    /\ UNCHANGED <<now, nAdds, issued, agentsFile, chatFiles, indexDirs>>
    /\ UNCHANGED <<peer, indexChunks>>

\* delete_agent(agent_id), as the "Eliminar" button calls it for a listed
\* agent and as any caller may for an id that is not stored
DeleteAgent(agent_id, w, wm, wc) ==
    /\ ManagerLoad(wm, wc)
    /\ LET out == delete_agent(agentsFile, agent_id, w)
       IN  /\ agentsFile' = out.file
           /\ ret' = [op |-> "delete", id |-> agent_id, w |-> w, val |-> out.val,
                      stored |-> DictHas(load_saved_agents(agentsFile), agent_id)]
    /\ UNCHANGED <<now, nAdds, issued, session_state, chatFiles, indexDirs>>
    /\ UNCHANGED <<peer, indexChunks>>

\* the environment removes the index directory of a document
RemoveIndexDir(dir) ==
    /\ dir \in indexDirs
    /\ indexDirs' = indexDirs \ { dir }
    /\ ret' = [op |-> "damage"]
    /\ UNCHANGED <<metadata, categories, diskMeta, diskCat, now, nAdds, issued,
                   base, added, session_state, agentsFile, chatFiles>>
    /\ UNCHANGED <<peer, indexChunks>>

NextAgents ==
    \/ \E h \in AgentHashes, wm \in LoadWrites(diskMeta), wc \in LoadWrites(diskCat) :
          CatalogSelect(h, wm, wc)
    \/ \E agent_name \in AgentNames, chroma \in ChromaOutcomes, w \in AgentWrites,
          t \in { now, now + 1 }, wm \in LoadWrites(diskMeta),
          wc \in LoadWrites(diskCat) :
          SubmitAgentForm(agent_name, chroma, w, t, wm, wc)
    \/ \E agent_id \in AgentIds, chroma \in ChromaOutcomes,
          wm \in LoadWrites(diskMeta), wc \in LoadWrites(diskCat) :
          UseAgent(agent_id, chroma, wm, wc)
    \/ \E agent_id \in AgentIds, w \in AgentWrites,
          wm \in LoadWrites(diskMeta), wc \in LoadWrites(diskCat) :
          DeleteAgent(agent_id, w, wm, wc)
    \/ DamageMetadataFile(Absent)
    \/ RemoveIndexDir(DocDir(AgentDrafts[1].title))

SpecAgents == InitAgents /\ [][NextAgents]_vars

-----------------------------------------------------------------------------
(* Properties of the agents page *)

\* the entries of a dict, as a set
Entries(d) == { d[i] : i \in 1..Len(d) }

\* C13: delete_agent on an id that is not stored returns False and leaves
\* data/saved_agents.json as it was; on a stored id, when the write goes
\* through, it returns True, the file holds the other entries unchanged and in
\* their order, and load_agent_config of that id then returns None.
C13_DeleteAgent ==
    [][ (ret'.op = "delete") =>
            LET before == load_saved_agents(agentsFile)
                after == load_saved_agents(agentsFile')
                id == ret'.id
                others == { i \in 1..Len(before) : before[i].k # id }
            IN  /\ ~DictHas(before, id) =>
                      (ret'.val = FALSE /\ agentsFile' = agentsFile)
                /\ (DictHas(before, id) /\ ret'.w = "ok") =>
                      /\ ret'.val = TRUE
                      /\ Loadable(agentsFile')
                      /\ ~DictHas(after, id)
                      /\ Len(after) = Cardinality(others)
                      /\ \A i \in others : \E j \in 1..Len(after) : after[j] = before[i]
                      /\ \A i \in 1..Len(after), j \in 1..Len(after) :
                            i < j => DictIndex(before, after[i].k)
                                       < DictIndex(before, after[j].k)
                      /\ \A chroma \in ChromaOutcomes :
                            load_agent_config(agentsFile', metadata', indexDirs', id,
                                              chroma) = None ]_vars

C13_Witness ==
    /\ ret.op = "delete"
    /\ ret.stored
    /\ ret.val = TRUE
    /\ Len(load_saved_agents(agentsFile)) = 1

\* the stored document references of agent_id that are in the registry with
\* an index directory that exists
AliveDocs(agent_id) ==
    LET saved == DictGet(load_saved_agents(agentsFile), agent_id, None)
    IN  SelectSeq(saved.docs,
                  LAMBDA d : \E i \in 1..Len(metadata) :
                                /\ metadata[i].k = d.hash
                                /\ "vectorstore_path" \in DOMAIN metadata[i].v
                                /\ metadata[i].v.vectorstore_path \in indexDirs)

\* C14: load_agent_config of a stored agent returns None only when opening
\* an index that exists raises, never because a referenced document is
\* missing from the registry or its index path does not exist: those
\* references are skipped, the others are resolved in stored order, and with
\* none left the config is returned with an empty vectorstores list.
C14_LoadSkipsMissing ==
    (ret.op = "use") =>
        LET alive == AliveDocs(ret.id)
        IN  /\ (ret.val = None) => (ret.chroma = "raises" /\ alive # <<>>)
            /\ (ret.val # None) =>
                  /\ Len(ret.val.vectorstores) = Len(alive)
                  /\ \A i \in 1..Len(alive) :
                        /\ ret.val.vectorstores[i].hash = alive[i].hash
                        /\ ret.val.vectorstores[i].vectorstore \in indexDirs
            /\ (alive = <<>>) => (ret.val # None /\ ret.val.vectorstores = <<>>)

C14_Witness ==
    /\ ret.op = "use"
    /\ ret.val # None
    /\ Len(ret.val.docs) = 2
    /\ Len(ret.val.vectorstores) = 1
    /\ ret.val.vectorstores[1].hash = ret.val.docs[2].hash

\* C15: whenever current_agent_config is set, its vectorstores list holds at
\* least one resolved index.
C15_CurrentConfigHasIndex ==
    (session_state.current_agent_config # None) =>
        Len(session_state.current_agent_config.vectorstores) >= 1

C15_Witness ==
    /\ ret.op = "use"
    /\ ret.val # None
    /\ ret.val.vectorstores = <<>>
    /\ session_state.current_agent_config # None

\* C16: a form submitted with an empty name, or with no selected document
\* that is in the registry, is rejected, and neither data/saved_agents.json
\* nor the session state (current_agent_config, selected_docs) changes.
C16_RejectedSubmitChangesNothing ==
    [][ (ret'.op = "submit" /\ (ret'.name = "" \/ ret'.resolved = 0)) =>
            /\ ret'.outcome = "rejected"
            /\ agentsFile' = agentsFile
            /\ session_state' = session_state ]_vars

C16_Witness ==
    /\ ret.op = "submit"
    /\ ret.outcome = "rejected"
    /\ ret.name = ""
    /\ ret.resolved = 2
    /\ session_state.current_agent_config # None
    /\ Len(load_saved_agents(agentsFile)) = 1

\* C17: when save_agent returns no id during creation, current_agent_config
\* keeps the value it had before the submit.
C17_FailedSaveKeepsCurrent ==
    [][ (ret'.op = "submit" /\ ret'.outcome = "save_failed") =>
            session_state'.current_agent_config = session_state.current_agent_config
      ]_vars

C17_Witness ==
    /\ ret.op = "submit"
    /\ ret.outcome = "save_failed"
    /\ session_state.current_agent_config # None

\* C18: when the write of data/saved_agents.json inside save_agent or
\* delete_agent fails, the caller is told (no id, False) and the next
\* load_saved_agents returns the agents it returned before the call.
C18_FailedWriteKeepsAgents ==
    [][ (\/ (ret'.op = "submit" /\ ret'.outcome = "save_failed")
         \/ (ret'.op = "delete" /\ ret'.stored /\ ret'.w # "ok")) =>
            /\ (ret'.op = "delete") => (ret'.val = FALSE)
            /\ Entries(load_saved_agents(agentsFile'))
                 = Entries(load_saved_agents(agentsFile)) ]_vars

-----------------------------------------------------------------------------
(* The upload page (pages/4_upload.py): the three-step wizard kept in        *)
(* st.session_state.upload_step, process_document and the add_document call  *)
(* of step 3.                                                                *)

\* the keys of SUPPORTED_FORMATS
SUPPORTED_FORMATS == { "pdf", "docx", "doc", "epub", "txt", "html", "pptx", "ppt" }

\* Path(file.name).suffix.lower()[1:] for the suffixes of the uploaded files
file_extension(suffix) ==
    CASE suffix \in { ".pdf", ".PDF" } -> "pdf"
      [] suffix \in { ".txt", ".TXT" } -> "txt"
      [] OTHER -> "bin"

\* the files the uploader of step 2 hands over (it only takes the supported
\* types)
UploadFiles == { [suffix |-> ".pdf"], [suffix |-> ".TXT"] }

\* how loading, cleaning, splitting and indexing the file can end
ProcessOutcomes == { "ok", "raises" }

\* process_document(file, metadata, temp_dir)
process_document(file, m, proc) ==
    IF file_extension(file.suffix) \notin SUPPORTED_FORMATS
    THEN [success |-> FALSE, error |-> "unsupported"]
    ELSE IF proc = "raises"
    THEN [success |-> FALSE, error |-> "raised"]
    ELSE [success |-> TRUE, vectorstore_path |-> DocDir(m.title),
          original_path |-> OriginalPath(m.title, file.suffix),
          file_type |-> file_extension(file.suffix)]

\* the directories process_document leaves: ensure_dir(doc_dir) comes right
\* after the extension check, before anything that loads or indexes
DirsAfterProcess(dirs, file, m) ==
    IF file_extension(file.suffix) \in SUPPORTED_FORMATS
    THEN dirs \cup { DocDir(m.title) } ELSE dirs

\* add_document(m, p, q) on a DocumentManager holding reg and cats, at clock
\* reading t: what the instance holds afterwards and what the call returns
add_document(reg, cats, m, p, q, t) ==
    LET doc_hash == DocHash(m)
        newMeta == DictSet(reg, doc_hash, FullMetadata(m, doc_hash, p, q, t))
    IN  IF "category" \in DOMAIN m
        THEN [metadata |-> newMeta, categories |-> IncrementCount(cats, m.category),
              raised |-> FALSE, val |-> doc_hash]
        ELSE [metadata |-> newMeta, categories |-> cats, raised |-> TRUE,
              val |-> None]

\* what the form of step 1 can be submitted with: every field filled in, or
\* the title left empty
UploadDrafts ==
    { m \in Drafts : "category" \in DOMAIN m }
    \cup { Draft(<<>>, <<"c">>, 2019, "Matematicas", <<>>, <<>>) }

\* st.session_state.upload_step, which every page run sets to 1 when missing
UploadStep(ss) == IF ss.upload_step = None THEN 1 ELSE ss.upload_step.step

\* a value of upload_step
StepV(n) == [step |-> n]

\* step 1: the metadata form is submitted
SubmitMetadata(m, wm, wc) ==
    /\ UploadStep(session_state) = 1
    /\ ManagerLoad(wm, wc)
    /\ session_state' =
         IF m.title # <<>>
         THEN [session_state EXCEPT !.doc_metadata = m, !.upload_step = StepV(2)]
         ELSE [session_state EXCEPT !.upload_step = StepV(1)]
    /\ ret' = [op |-> "metadata", m |-> m]
    /\ UNCHANGED <<now, nAdds, issued, agentsFile, chatFiles, indexDirs>>
    /\ UNCHANGED <<peer, indexChunks>>

\* step 2: "Volver"
BackToMetadata(wm, wc) ==
    /\ UploadStep(session_state) = 2
    /\ ManagerLoad(wm, wc)
    /\ session_state' = [session_state EXCEPT !.upload_step = StepV(1)]
    /\ ret' = [op |-> "back"]
    /\ UNCHANGED <<now, nAdds, issued, agentsFile, chatFiles, indexDirs>>
    /\ UNCHANGED <<peer, indexChunks>>

\* step 2: a file is chosen and "Procesar" is pressed
ChooseFile(file, wm, wc) ==
    /\ UploadStep(session_state) = 2
    /\ ManagerLoad(wm, wc)
    /\ session_state' = [session_state EXCEPT !.uploaded_file = file,
                                              !.upload_step = StepV(3)]
    /\ ret' = [op |-> "file", file |-> file]
    /\ UNCHANGED <<now, nAdds, issued, agentsFile, chatFiles, indexDirs>>
    /\ UNCHANGED <<peer, indexChunks>>

\* Step3Outcome that calls add_document without looking at result["success"]
Step3Outcome_addsAlways(reg, cats, file, m, proc, t) ==
    LET added_ == add_document(reg, cats, m, DocDir(m.title),
                               OriginalPath(m.title, file.suffix), t)
    IN  [success |-> process_document(file, m, proc).success, called |-> TRUE,
         metadata |-> added_.metadata, categories |-> added_.categories,
         val |-> added_.val]

\* the body of step 3: process_document, and add_document under
\* 'if result["success"]'
Step3Outcome(reg, cats, file, m, proc, t) ==
    LET result == process_document(file, m, proc)
    IN  IF result.success
        THEN LET added_ == add_document(reg, cats, m, result.vectorstore_path,
                                        result.original_path, t)
             IN  [success |-> TRUE, called |-> TRUE, metadata |-> added_.metadata,
                  categories |-> added_.categories, val |-> added_.val]
        ELSE [success |-> FALSE, called |-> FALSE, metadata |-> reg,
              categories |-> cats, val |-> None]

\* the buttons a run of step 3 draws
Step3Buttons(success) ==
    IF success THEN { "none", "another", "assistant" } ELSE { "none", "back" }

\* a page run while upload_step is 3: the document is processed and, on
\* success, registered; then the button that was pressed, if this run draws
\* it, is handled
Step3Run(proc, button, wm, wc, wm2, wc2) ==
    /\ UploadStep(session_state) = 3
    /\ session_state.uploaded_file # None
    /\ nAdds < MaxAdds
    /\ button # "none" => (ret.op = "step3" /\ button \in Step3Buttons(ret.success))
    /\ LET reg == LoadedMetadata(diskMeta)
           cats == LoadedCategories(diskCat)
           file == session_state.uploaded_file
           m == session_state.doc_metadata
           out == Step3Outcome(reg, cats, file, m, proc, now + 1)
           pressed == IF button \in Step3Buttons(out.success) THEN button ELSE "none"
       IN  /\ metadata' = out.metadata
           /\ categories' = out.categories
           /\ diskMeta' = IF out.called
                          THEN SaveFile(MetaFileAfterLoad(diskMeta, wm), out.metadata, wm2)
                          ELSE MetaFileAfterLoad(diskMeta, wm)
           /\ diskCat' = IF out.called
                         THEN SaveFile(CatFileAfterLoad(diskCat, wc), out.categories, wc2)
                         ELSE CatFileAfterLoad(diskCat, wc)
           /\ base' = [c \in Cats |-> CountOf(cats, c)]
           /\ added' = IF out.called
                       THEN [ZeroCounts EXCEPT ![m.category] = 1] ELSE ZeroCounts
           /\ nAdds' = IF out.called THEN nAdds + 1 ELSE nAdds
           /\ now' = IF out.called THEN now + 1 ELSE now
           /\ issued' = IF out.called
                        THEN issued \cup { <<Triple(m), DocHash(m)>> } ELSE issued
           /\ indexDirs' = DirsAfterProcess(indexDirs, file, m)
           /\ session_state' =
                CASE pressed = "another" ->
                       [session_state EXCEPT !.doc_metadata = None,
                                             !.uploaded_file = None,
                                             !.upload_step = StepV(1)]
                  [] pressed = "assistant" ->
                       [session_state EXCEPT !.selected_docs = ListV(<<out.val>>),
                                             !.upload_step = StepV(3)]
                  [] pressed = "back" ->
                       [session_state EXCEPT !.upload_step = StepV(2)]
                  [] OTHER -> [session_state EXCEPT !.upload_step = StepV(3)]
           /\ ret' = [op |-> "step3", proc |-> proc, success |-> out.success,
                      called |-> out.called, pressed |-> pressed, val |-> out.val]
    /\ UNCHANGED <<agentsFile, chatFiles>>
    /\ UNCHANGED <<peer, indexChunks>>

NextUpload ==
    \/ \E m \in UploadDrafts, wm \in LoadWrites(diskMeta), wc \in LoadWrites(diskCat) :
          SubmitMetadata(m, wm, wc)
    \/ \E wm \in LoadWrites(diskMeta), wc \in LoadWrites(diskCat) :
          BackToMetadata(wm, wc)
    \/ \E file \in UploadFiles, wm \in LoadWrites(diskMeta),
          wc \in LoadWrites(diskCat) : ChooseFile(file, wm, wc)
    \/ \E proc \in ProcessOutcomes, button \in { "none", "another", "assistant", "back" },
          wm \in LoadWrites(diskMeta), wc \in LoadWrites(diskCat),
          wm2 \in WriteOutcomes, wc2 \in WriteOutcomes :
          Step3Run(proc, button, wm, wc, wm2, wc2)

SpecUpload == Init /\ [][NextUpload]_vars

\* C19: in a run of step 3, add_document is called only when process_document
\* returned success; when it did not, the registry and the category counts,
\* in the DocumentManager of the run and on disk, are what the run loaded.
C19_AddOnlyAfterSuccess ==
    [][ (ret'.op = "step3") =>
            /\ (nAdds' # nAdds) => (ret'.success /\ ret'.proc = "ok")
            /\ ~ret'.success =>
                  /\ nAdds' = nAdds
                  /\ metadata' = LoadedMetadata(diskMeta)
                  /\ LoadedMetadata(diskMeta') = LoadedMetadata(diskMeta)
                  /\ categories'.category_counts
                       = LoadedCategories(diskCat).category_counts
                  /\ LoadedCategories(diskCat').category_counts
                       = LoadedCategories(diskCat).category_counts ]_vars

C19_Witness ==
    /\ ret.op = "step3"
    /\ ~ret.success
    /\ Len(metadata) = 1
    /\ nAdds = 1

-----------------------------------------------------------------------------
(* The chat page (pages/5_document_chat.py): the messages of the session,    *)
(* the agent cached in the session and the transcript files under            *)
(* data/chat_history.                                                        *)

\* most messages a session holds before it stops asking
MaxMessages == 5

\* the day of a clock reading, strftime('%Y%m%d'): two readings a day
Day(t) == t \div 2

\* get_agent_id(config): "agent_", the agent's name and the current day
get_agent_id(config, t) == [name |-> config.name, day |-> Day(t)]

\* load_agent_history(agent_id); the page never calls it
load_agent_history(files, agent_id) ==
    LET file == DictGet(files, agent_id, Absent)
    IN  IF file.st = "absent" THEN <<>> ELSE file.data

\* save_agent_history(agent_id, messages), the write ending as w
save_agent_history(files, agent_id, messages, w) ==
    DictSet(files, agent_id, WriteJson(DictGet(files, agent_id, Absent), messages, w))

welcome_message(config, t) ==
    [role |-> "assistant", content |-> [hello |-> config.name, as |-> config.role],
     timestamp |-> t]

user_message(prompt, t) ==
    [role |-> "user", content |-> [text |-> prompt], timestamp |-> t]

\* the reply of the cached agent, which answers from the config it was
\* built with
assistant_message(agent, prompt, t) ==
    [role |-> "assistant", content |-> [answer |-> prompt, by |-> agent.name],
     timestamp |-> t]

error_message(t) ==
    [role |-> "assistant", content |-> [error |-> TRUE], timestamp |-> t]

\* "if 'messages' not in st.session_state": the list starts with the welcome
MessagesOf(ss, config, t) ==
    IF ss.messages = None THEN <<welcome_message(config, t)>> ELSE ss.messages.list

\* initialize_agent(...) with the search tool closed over config
AgentOf(config) == [name |-> config.name, vectorstores |-> config.vectorstores,
                    context_window |-> config.context_window]

\* how building the agent and running it can end
RunOutcomes == { "ok", "init_raises", "run_raises" }

Prompts == { "q" }

\* an agent entry of data/saved_agents.json, as save_agent stores it
SavedAgentOf(name, m, t) ==
    StoredAgent([name |-> name, role |-> "Tutor", context_window |-> 3,
                 vectorstores |-> <<Resolved(UploadedRecord(m))>>], t)

\* a data directory with the two documents and one agent on each, and a
\* session that starts
InitChat ==
    /\ metadata = AgentsRegistry
    /\ diskMeta = FileOf(AgentsRegistry)
    /\ categories = IncrementCount(IncrementCount(default_categories, "Matematicas"),
                                   "Ciencias")
    /\ diskCat = FileOf(categories)
    /\ now = 1
    /\ nAdds = 0
    /\ ret = NoRet
    /\ issued = { <<Triple(AgentDrafts[i]), DocHash(AgentDrafts[i])>> :
                    i \in 1..Len(AgentDrafts) }
    /\ base = [c \in Cats |-> CountOf(categories, c)]
    /\ added = ZeroCounts
    /\ session_state = EmptySession
    /\ agentsFile = FileOf(<< [k |-> AgentId(0), v |-> SavedAgentOf("Ana", AgentDrafts[1], 0)],
                              [k |-> AgentId(1), v |-> SavedAgentOf("Bo", AgentDrafts[2], 1)] >>)
    /\ chatFiles = <<>>
    /\ indexDirs = { DocDir(AgentDrafts[i].title) : i \in 1..Len(AgentDrafts) }
    /\ peer = None
    /\ indexChunks = <<>>

\* a page run without a prompt: the messages are initialised
OpenChat(wm, wc) ==
    /\ session_state.current_agent_config # None
    /\ session_state.messages = None
    /\ ManagerLoad(wm, wc)
    /\ session_state' =
         [session_state EXCEPT !.messages =
             ListV(MessagesOf(session_state, session_state.current_agent_config, now))]
    /\ ret' = [op |-> "open"]
    /\ UNCHANGED <<now, nAdds, issued, agentsFile, chatFiles, indexDirs>>
    /\ UNCHANGED <<peer, indexChunks>>

\* a page run with a prompt typed into the chat input; run says how the
\* agent ends, w how the write of the transcript ends.  The clock is read
\* within the second the session started in.
ChatQuery(prompt, run, w, wm, wc) ==
    /\ session_state.current_agent_config # None
    /\ run = "init_raises" => session_state.agent = None
    /\ ManagerLoad(wm, wc)
    /\ LET t == now
           config == session_state.current_agent_config
           agent_id == get_agent_id(config, t)
           asked == Append(MessagesOf(session_state, config, t), user_message(prompt, t))
           agent == IF session_state.agent = None /\ run # "init_raises"
                    THEN AgentOf(config) ELSE session_state.agent
           answered == Append(asked, assistant_message(agent, prompt, t))
           messages == CASE run # "ok" -> Append(asked, error_message(t))
                         [] run = "ok" /\ w = "ok" -> answered
                         [] OTHER -> Append(answered, error_message(t))
       IN  /\ Len(messages) <= MaxMessages
           /\ session_state' = [session_state EXCEPT !.messages = ListV(messages),
                                                     !.agent = agent]
           /\ chatFiles' = IF run = "ok"
                           THEN save_agent_history(chatFiles, agent_id, answered, w)
                           ELSE chatFiles
           /\ ret' = [op |-> "query", id |-> agent_id, run |-> run, w |-> w]
    /\ UNCHANGED <<now, nAdds, issued, agentsFile, indexDirs>>
    /\ UNCHANGED <<peer, indexChunks>>

\* the browser session ends and another one starts
NewSession ==
    /\ session_state # EmptySession
    /\ session_state' = EmptySession
    /\ ret' = [op |-> "new_session"]
    /\ UNCHANGED <<metadata, categories, diskMeta, diskCat, now, nAdds, issued,
                   base, added, agentsFile, chatFiles, indexDirs>>
    /\ UNCHANGED <<peer, indexChunks>>

NextChat ==
    \/ \E agent_id \in AgentIds, chroma \in ChromaOutcomes,
          wm \in LoadWrites(diskMeta), wc \in LoadWrites(diskCat) :
          UseAgent(agent_id, chroma, wm, wc)
    \/ \E wm \in LoadWrites(diskMeta), wc \in LoadWrites(diskCat) : OpenChat(wm, wc)
    \/ \E prompt \in Prompts, run \in RunOutcomes, w \in AgentWrites,
          wm \in LoadWrites(diskMeta), wc \in LoadWrites(diskCat) :
          ChatQuery(prompt, run, w, wm, wc)
    \/ NewSession

SpecChat == InitChat /\ [][NextChat]_vars

\* s is a prefix of t
IsPrefix(s, t) == Len(s) <= Len(t) /\ SubSeq(t, 1, Len(s)) = s

\* C20: the transcript stored for an agent is append-only: whenever a query
\* rewrites a transcript file and the write goes through, what the file held
\* before is a prefix of what it holds afterwards.
C20_TranscriptAppendOnly ==
    [][ (ret'.op = "query" /\ ret'.run = "ok" /\ ret'.w = "ok") =>
            \A i \in 1..Len(chatFiles) :
                Loadable(chatFiles[i].v) =>
                    IsPrefix(chatFiles[i].v.data,
                             load_agent_history(chatFiles', chatFiles[i].k)) ]_vars

-----------------------------------------------------------------------------
(* Transcript files and saved agents *)

\* C21: every saved agent has a transcript file of its own: the chat page
\* never computes the same file for two different entries of
\* data/saved_agents.json, and the file it computes for an entry is the same
\* at every clock reading up to the present one.
C21_OneTranscriptFilePerAgent ==
    LET agents == load_saved_agents(agentsFile)
    IN  /\ \A i \in 1..Len(agents), j \in 1..Len(agents) :
              i # j => get_agent_id(agents[i].v, now) # get_agent_id(agents[j].v, now)
        /\ \A i \in 1..Len(agents), t \in 0..now :
              get_agent_id(agents[i].v, t) = get_agent_id(agents[i].v, now)

-----------------------------------------------------------------------------
(* The search tool of the chat agent (pages/5_document_chat.py, the inner    *)
(* search_documents): what it hands to the model for one query.              *)

\* largest context_window an agent is configured with
MaxWindow == 2

\* the characters str.strip() removes
Whitespace == { " " }

RECURSIVE lstrip(_)
lstrip(s) == IF s # <<>> /\ Head(s) \in Whitespace THEN lstrip(Tail(s)) ELSE s

RECURSIVE rstrip(_)
rstrip(s) ==
    IF s # <<>> /\ s[Len(s)] \in Whitespace THEN rstrip(SubSeq(s, 1, Len(s) - 1))
    ELSE s

\* s.strip()
strip(s) == rstrip(lstrip(s))

\* where the first "]:" at or after position from starts in s; 0 when there
\* is none
SepAt(s, from) ==
    LET hits == { i \in from..(Len(s) - 1) : s[i] = "]" /\ s[i + 1] = ":" }
    IN  IF hits = {} THEN 0 ELSE CHOOSE i \in hits : \A j \in hits : i <= j

\* r.split(']:')[1]: the text between the first "]:" and the next one
SplitSecond(r) ==
    LET i == SepAt(r, 1)
        j == SepAt(r, i + 2)
    IN  SubSeq(r, i + 2, IF j = 0 THEN Len(r) ELSE j - 1)

\* f"[{source}]: {content}"
FormatResult(source, content) == <<"[">> \o source \o <<"]", ":", " ">> \o content

\* "if content not in [r.split(']:')[1].strip() for r in results]:
\*      results.append(...)"; source and content are kept next to the entry
AppendIfNew(results, source, content) ==
    IF \E i \in 1..Len(results) : strip(SplitSecond(results[i].entry)) = content
    THEN results
    ELSE Append(results, [source |-> source, content |-> content,
                          entry |-> FormatResult(source, content)])

RECURSIVE CollectDocs(_, _, _)
\* the inner loop "for doc in docs", over the chunks one retriever returned
CollectDocs(results, source, docs) ==
    IF docs = <<>> THEN results
    ELSE CollectDocs(AppendIfNew(results, source, strip(Head(docs))), source,
                     Tail(docs))

RECURSIVE CollectStores(_, _, _, _)
\* the outer loop "for vs in config['vectorstores']"; each retriever returns
\* its k most relevant chunks
CollectStores(results, vectorstores, chunks, k) ==
    IF vectorstores = <<>> THEN results
    ELSE LET vs == Head(vectorstores)
             docs == Take(DictGet(chunks, vs.vectorstore, <<>>), k)
         IN  CollectStores(CollectDocs(results, vs.title, docs), Tail(vectorstores),
                           chunks, k)

RECURSIVE JoinEntries(_)
\* "\n\n".join(...)
JoinEntries(results) ==
    IF results = <<>> THEN <<>>
    ELSE IF Len(results) = 1 THEN results[1].entry
    ELSE results[1].entry \o <<"\n", "\n">> \o JoinEntries(Tail(results))

\* the message returned when nothing was found
NotFound == <<"N", "o">>

\* the tool search_documents(query) of the agent built over config: the
\* entries it hands over and the text they are joined into
chat_search_documents(config, chunks) ==
    LET results == CollectStores(<<>>, config.vectorstores, chunks,
                                 config.context_window)
        handed == Take(results, config.context_window)
    IN  [results |-> handed,
         text |-> IF results # <<>> THEN JoinEntries(handed) ELSE NotFound]

\* titles of the first document of the agent
RetrievalTitles == { <<"a">>, <<"a", "]", ":", "d">> }

\* page_content of the chunks an index can return
ChunkTexts == { <<"b">>, <<"d">>, <<"b", "]", ":", "d">>, <<" ", "b">> }

\* the lists of at most n chunks
ChunkLists(n) == UNION { [1..len -> ChunkTexts] : len \in 0..n }

\* the two documents of the agent, the first one titled title
RetrievalDrafts(title) ==
    << Draft(title, <<"c">>, 2019, "Matematicas", <<>>, <<>>),
       Draft(<<"c">>, <<"c">>, 2020, "Ciencias", <<>>, <<>>) >>

RetrievalRegistry(title) ==
    [i \in 1..2 |-> [k |-> DocHash(RetrievalDrafts(title)[i]),
                     v |-> UploadedRecord(RetrievalDrafts(title)[i])]]

\* a session whose current agent resolves two indexes, and what the two
\* indexes return for the query
InitRetrieval ==
    /\ \E title \in RetrievalTitles, k \in 1..MaxWindow,
          c1 \in ChunkLists(MaxWindow), c2 \in ChunkLists(MaxWindow) :
          /\ metadata = RetrievalRegistry(title)
          /\ session_state =
               [EmptySession EXCEPT !.current_agent_config =
                   [name |-> "Ana", role |-> "Tutor", context_window |-> k,
                    vectorstores |-> [i \in 1..2 |->
                                        Resolved(RetrievalRegistry(title)[i].v)]]]
          /\ indexChunks = << [k |-> DocDir(title), v |-> c1],
                              [k |-> DocDir(<<"c">>), v |-> c2] >>
          /\ indexDirs = { DocDir(title), DocDir(<<"c">>) }
    /\ diskMeta = FileOf(metadata)
    /\ categories = IncrementCount(IncrementCount(default_categories, "Matematicas"),
                                   "Ciencias")
    /\ diskCat = FileOf(categories)
    /\ now = 0
    /\ nAdds = 0
    /\ ret = NoRet
    /\ issued = {}
    /\ base = [c \in Cats |-> CountOf(categories, c)]
    /\ added = ZeroCounts
    /\ agentsFile = Absent
    /\ chatFiles = <<>>
    /\ peer = None

\* the agent calls its search tool for the query
Retrieve ==
    /\ session_state.current_agent_config # None
    /\ ret' = [op |-> "retrieve",
               val |-> chat_search_documents(session_state.current_agent_config,
                                             indexChunks)]
    /\ UNCHANGED <<metadata, categories, diskMeta, diskCat, now, nAdds, issued,
                   base, added, session_state, agentsFile, chatFiles, indexDirs,
                   peer, indexChunks>>

NextRetrieval == Retrieve

SpecRetrieval == InitRetrieval /\ [][NextRetrieval]_vars

\* C22: the entries handed to the model for a query never include two
\* entries with the same chunk content, whatever the contents and titles are.
C22_NoDuplicateChunks ==
    (ret.op = "retrieve") =>
        \A i \in 1..Len(ret.val.results), j \in 1..Len(ret.val.results) :
            i # j => ret.val.results[i].content # ret.val.results[j].content

\* C23: every chunk among the context_window most relevant chunks of each
\* resolved index is the content of an entry handed to the model.
C23_EveryIndexContributes ==
    (ret.op = "retrieve") =>
        LET config == session_state.current_agent_config
        IN  \A n \in 1..Len(config.vectorstores) :
                LET docs == Take(DictGet(indexChunks, config.vectorstores[n].vectorstore,
                                         <<>>), config.context_window)
                IN  \A d \in 1..Len(docs) :
                        \E i \in 1..Len(ret.val.results) :
                            ret.val.results[i].content = strip(docs[d])

-----------------------------------------------------------------------------
(* Later properties of the registry *)

\* C24: the processed_date of a record is set when the record is created and
\* never changes afterwards: a record that is in the registry before and
\* after a step has the same processed_date.
C24_ProcessedDateSetOnce ==
    [][ \A i \in 1..Len(metadata) :
            DictHas(metadata', metadata[i].k) =>
                DictGet(metadata', metadata[i].k, None).processed_date
                    = metadata[i].v.processed_date ]_vars

-----------------------------------------------------------------------------
(* Two DocumentManager instances on one data directory: two page runs, or   *)
(* two sessions, that overlap.  metadata and categories are the first       *)
(* instance, peer is the second one.                                        *)

\* self._save_metadata(self.metadata) writing the entries of the file that the
\* instance does not hold back after its own
save_metadata_merging(file, reg, w) ==
    LET kept == SelectSeq(LoadedMetadata(file), LAMBDA e : ~DictHas(reg, e.k))
    IN  SaveFile(file, reg \o kept, w)

\* self._save_metadata(self.metadata): the whole file is written from what the
\* instance holds
save_metadata(file, reg, w) == SaveFile(file, reg, w)

\* the ids stored in a metadata.json
FileIds(file) == { LoadedMetadata(file)[i].k : i \in 1..Len(LoadedMetadata(file)) }

\* DocumentManager() of the second instance
PeerConstruct(wm, wc) ==
    /\ peer' = [metadata |-> LoadedMetadata(diskMeta),
                categories |-> LoadedCategories(diskCat)]
    /\ diskMeta' = MetaFileAfterLoad(diskMeta, wm)
    /\ diskCat' = CatFileAfterLoad(diskCat, wc)
    /\ ret' = [op |-> "peer_construct", wm |-> wm, wc |-> wc]
    /\ UNCHANGED <<metadata, categories, now, nAdds, issued, base, added>>
    /\ UNCHANGED <<session_state, agentsFile, chatFiles, indexDirs, indexChunks>>

\* add_document(m, p, q) of the second instance
PeerAddDocument(m, p, q, wm, wc) ==
    /\ peer # None
    /\ nAdds < MaxAdds
    /\ nAdds' = nAdds + 1
    /\ now' = now + 1
    /\ LET out == add_document(peer.metadata, peer.categories, m, p, q, now')
       IN  /\ peer' = [metadata |-> out.metadata, categories |-> out.categories]
           /\ diskMeta' = save_metadata(diskMeta, out.metadata, wm)
           /\ diskCat' = IF out.raised THEN diskCat
                         ELSE SaveFile(diskCat, out.categories, wc)
           /\ issued' = issued \cup { <<Triple(m), DocHash(m)>> }
           /\ ret' = [op |-> "peer_add", m |-> m, wm |-> wm, wc |-> wc,
                      raised |-> out.raised,
                      lost |-> FileIds(diskMeta) \ FileIds(diskMeta')]
    /\ UNCHANGED <<metadata, categories, base, added>>
    /\ UNCHANGED <<session_state, agentsFile, chatFiles, indexDirs, indexChunks>>

NextRace ==
    \/ \E wm \in WriteOutcomes, wc \in WriteOutcomes : Construct(wm, wc)
    \/ \E wm \in WriteOutcomes, wc \in WriteOutcomes : PeerConstruct(wm, wc)
    \/ \E m \in Drafts, p \in VectorPaths, q \in OriginalPaths,
          wm \in WriteOutcomes, wc \in WriteOutcomes : AddDocument(m, p, q, wm, wc)
    \/ \E m \in Drafts, p \in VectorPaths, q \in OriginalPaths,
          wm \in WriteOutcomes, wc \in WriteOutcomes :
          PeerAddDocument(m, p, q, wm, wc)

SpecRace == Init /\ [][NextRace]_vars

-----------------------------------------------------------------------------
(* Later properties of the agents file and of the two instances *)

C26_LastWriterWins ==
    [][ ( /\ ret.op = "add"
          /\ ret.wm = "ok"
          /\ peer # None
          /\ ~DictHas(peer.metadata, DocHash(ret.m))
          /\ peer.metadata = DictRemove(metadata, DocHash(ret.m))
          /\ ret'.op = "peer_add"
          /\ ret'.wm = "ok"
          /\ DocHash(ret'.m) # DocHash(ret.m) ) =>
            /\ diskMeta' = FileOf(peer'.metadata)
            /\ DictHas(diskMeta'.data, DocHash(ret'.m))
            /\ ~DictHas(diskMeta'.data, DocHash(ret.m))
            /\ DictHas(diskMeta.data, DocHash(ret.m))
      ]_vars

C26_Witness ==
    /\ ret.op = "peer_add"
    /\ ret.wm = "ok"
    /\ ret.lost # {}
    /\ ret.lost \subseteq { metadata[i].k : i \in 1..Len(metadata) }
    /\ diskMeta = FileOf(peer.metadata)
    /\ DictHas(diskMeta.data, DocHash(ret.m))

-----------------------------------------------------------------------------
(* Later properties of the upload wizard *)

\* C27: any two registry records stored under different ids have different
\* vectorstore_path values and different original_path values.
C27_PathsKeyedById ==
    \A i \in 1..Len(metadata), j \in 1..Len(metadata) :
        metadata[i].k # metadata[j].k =>
            /\ metadata[i].v.vectorstore_path # metadata[j].v.vectorstore_path
            /\ metadata[i].v.original_path # metadata[j].v.original_path

\* C30: once a run of step 3 has processed and registered the upload, a later
\* run of step 3 of the same pass (a rerun, or the run in which a button of
\* the result page is handled) does not call add_document again and leaves
\* every category count of categories.json as it was.
C30_OneAddPerUpload ==
    [][ (ret.op = "step3" /\ ret.called /\ ret'.op = "step3") =>
            /\ ~ret'.called
            /\ \A c \in Cats :
                  CountOf(LoadedCategories(diskCat'), c)
                      = CountOf(LoadedCategories(diskCat), c)
      ]_vars

-----------------------------------------------------------------------------
(* Later properties of the chat page *)

\* C28: a query that the agent answers is answered by an agent whose
\* search_documents tool reads the vectorstores and the context_window of the
\* configuration that is current_agent_config when the query is made.
C28_QueryUsesCurrentConfig ==
    [][ (ret'.op = "query" /\ ret'.run = "ok") =>
            /\ session_state'.agent.vectorstores
                  = session_state.current_agent_config.vectorstores
            /\ session_state'.agent.context_window
                  = session_state.current_agent_config.context_window
      ]_vars

\* C29: every welcome message in the transcript file of an agent is the
\* welcome of that agent: no message that opened another agent's conversation
\* is written into it.
C29_TranscriptOfOneAgent ==
    \A i \in 1..Len(chatFiles) :
        LET messages == load_agent_history(chatFiles, chatFiles[i].k)
        IN  \A j \in 1..Len(messages) :
                "hello" \in DOMAIN messages[j].content =>
                    messages[j].content.hello = chatFiles[i].k.name

====
